---------------------------- MODULE Spec2Model ----------------------------
(***************************************************************************)
(* A model of ilyvion-util.                                                *)
(*                                                                         *)
(* Spec: the memoizing caches (src/src/cache.rs): Cache<F, V>, which runs  *)
(* a FnOnce computation at most once, and KeyedCache<F, K, V>, which runs  *)
(* a FnMut computation per vacant key.  The program constructs one cache   *)
(* (of either type) and then calls its methods in any order.  A            *)
(* computation may panic; the caller is taken to catch the unwind and go   *)
(* on using the cache.                                                     *)
(*                                                                         *)
(* SpecPerm: heap_permutation (src/src/permutation.rs) applied to a slice  *)
(* of digits.                                                              *)
(*                                                                         *)
(* SpecGrid: Window2D and Vec2D (src/src/multi_dimensional): a view is     *)
(* constructed over a buffer and then indexed, written and unwrapped.      *)
(*                                                                         *)
(* SpecEnv: the accessors define_environment! generates                    *)
(* (src/src/environment.rs) for one declared variable.                     *)
(*                                                                         *)
(* SpecOwn: the own-or-borrow pointers Borrowned (src/borrowned), and      *)
(* BorrownedBox, Ob and OBox (src/src/ownership): one pointer is made,     *)
(* read and written through, and taken apart by its extractors.            *)
(*                                                                         *)
(* Each specification leaves the variables of the other components at      *)
(* Unused.                                                                 *)
(***************************************************************************)
EXTENDS Integers, Sequences, FiniteSets, TLC

\* ------------------------------------------------------------------ bounds
MaxValue == 2      \* values V are 1..MaxValue
MaxKey   == 2      \* keys K are 1..MaxKey
MaxCalls == 4      \* value_mut is called at most MaxCalls times
MaxFail  == 1      \* the keyed computation panics at most MaxFail times
MaxLen   == 3      \* heap_permutation: slices of at most MaxLen digits
MaxDigit == 3      \* heap_permutation: the digits are 0..MaxDigit
MaxBuf   == 4      \* Window2D / Vec2D: buffers of at most MaxBuf cells, rows
                   \* and columns are 0..MaxBuf
MaxIdx   == 2      \* Window2D / Vec2D: the indices used are 0..MaxIdx

Values == 1..MaxValue
Keys   == 1..MaxKey
NoKey  == "no key"    \* where a key would stand and there is none

\* ------------------------------------------------------- Option and results
None      == <<"None">>
Some(v)   == <<"Some", v>>
Ok(v)     == <<"ok", v>>          \* the call returned (a reference to) v
Panicked  == <<"panic">>          \* the call unwound

\* A zero-argument computation F: FnOnce() -> V, given by what running it does.
Computations == {Ok(v) : v \in Values} \cup {Panicked}
\* A keyed computation F: FnMut(&K) -> V, given by the value it returns for each
\* key when it returns at all.
KeyedComputations == [Keys -> Values]

VARIABLES
    sut,          \* the cache under study: a Cache or a KeyedCache struct
    computation,  \* the computation handed to new()
    counter,      \* how many times the computation has been invoked
    key_calls,    \* per key: how many times the computation was invoked with it
    key_done,     \* per key: how many of these invocations returned
    failures,     \* how many invocations of the computation panicked
    mut_calls,    \* how many times value_mut has been called
    returned,     \* the values Cache::value_mut calls have returned
    written,      \* the value last written through a returned reference, per
                  \* key (under NoKey for a Cache)
    requested,    \* the keys passed to KeyedCache::value_mut so far
    ret           \* the last operation and what it gave back

vars == <<sut, computation, counter, key_calls, key_done, failures, mut_calls,
          returned, written, requested, ret>>

VARIABLES
    perm,         \* permutation.rs: the digits slice, the result vector and
                  \* where the caller of heap_permutation stands
    grid,         \* multi_dimensional: the Window2D / Vec2D under study and
                  \* what the last operation on it gave back
    env,          \* environment.rs: the process environment, the statics of
                  \* define_environment! and what the last accessor gave back
    own           \* ownership: the own-or-borrow pointer under study, the
                  \* lender's variable and what the last operation gave back

Unused == "unused"
otherVars == <<perm, grid, env, own>>
allVars == <<vars, otherVars>>

IsCache == sut.type = "Cache"
IsKeyed == sut.type = "KeyedCache"

\* ------------------------------------------------------------------ Cache
\* HashMap::insert of v under k.
Put(map, k, v) ==
    [x \in DOMAIN map \cup {k} |-> IF x = k THEN v ELSE map[x]]

\* Mutant: new() runs the computation at once and stores its result.
Cache_new_eager(f) ==
    [self |-> [type |-> "Cache", calculation_fn |-> None,
               value |-> IF f = Panicked THEN None ELSE Some(f[2])],
     invoked |-> 1]

\* Cache::new: the computation is stored, not run.
Cache_new(f) ==
    [self |-> [type |-> "Cache", calculation_fn |-> Some(f), value |-> None],
     invoked |-> 0]

\* Mutant: value_mut runs the computation on every call (as_ref in place of
\* take, insert in place of get_or_insert_with).
Cache_value_mut_recompute(self) ==
    IF self.calculation_fn = None
    THEN [self |-> self, out |-> Panicked, invoked |-> 0]
    ELSE IF self.calculation_fn[2] = Panicked
    THEN [self |-> self, out |-> Panicked, invoked |-> 1]
    ELSE [self |-> [self EXCEPT !.value = Some(self.calculation_fn[2][2])],
          out |-> Ok(self.calculation_fn[2][2]), invoked |-> 1]

\* Mutant: value_mut computes once but leaves the computation in its slot
\* (as_ref in place of take).
Cache_value_mut_keep_fn(self) ==
    IF self.value # None
    THEN [self |-> self, out |-> Ok(self.value[2]), invoked |-> 0]
    ELSE IF self.calculation_fn = None
    THEN [self |-> self, out |-> Panicked, invoked |-> 0]
    ELSE IF self.calculation_fn[2] = Panicked
    THEN [self |-> self, out |-> Panicked, invoked |-> 1]
    ELSE [self |-> [self EXCEPT !.value = Some(self.calculation_fn[2][2])],
          out |-> Ok(self.calculation_fn[2][2]), invoked |-> 1]

\* Mutant: a consumed computation is replaced by a default value instead of
\* panicking in unwrap().
Cache_value_mut_lenient(self) ==
    IF self.value # None
    THEN [self |-> self, out |-> Ok(self.value[2]), invoked |-> 0]
    ELSE LET taken == self.calculation_fn
             emptied == [self EXCEPT !.calculation_fn = None]
         IN  IF taken = None
             THEN [self |-> [emptied EXCEPT !.value = Some(1)], out |-> Ok(1), invoked |-> 0]
             ELSE IF taken[2] = Panicked
             THEN [self |-> emptied, out |-> Panicked, invoked |-> 1]
             ELSE [self |-> [emptied EXCEPT !.value = Some(taken[2][2])],
                   out |-> Ok(taken[2][2]), invoked |-> 1]

\* Cache::value_mut: Option::get_or_insert_with on value; the closure takes the
\* computation out of calculation_fn, unwraps it and calls it.
\* Gives the struct afterwards, the call's outcome and the number of
\* invocations of the computation.
Cache_value_mut(self) ==
    IF self.value # None
    THEN [self |-> self, out |-> Ok(self.value[2]), invoked |-> 0]
    ELSE LET taken == self.calculation_fn
             emptied == [self EXCEPT !.calculation_fn = None]
         IN  IF taken = None
             THEN [self |-> emptied, out |-> Panicked, invoked |-> 0]
             ELSE IF taken[2] = Panicked
             THEN [self |-> emptied, out |-> Panicked, invoked |-> 1]
             ELSE [self |-> [emptied EXCEPT !.value = Some(taken[2][2])],
                   out |-> Ok(taken[2][2]), invoked |-> 1]

\* Mutant: value() forces the computation the way value_mut does.
Cache_value_forcing(self) ==
    LET r == Cache_value_mut(self)
    IN  [self |-> r.self,
         out |-> IF r.out = Panicked THEN None ELSE Some(r.out[2]),
         invoked |-> r.invoked]

\* Cache::value: value.as_ref().
Cache_value(self) ==
    [self |-> self, out |-> self.value, invoked |-> 0]

\* `*val = v` through the reference value_mut returned.
Cache_write(self, v) ==
    [self EXCEPT !.value = Some(v)]

\* ------------------------------------------------------------- KeyedCache
\* KeyedCache::new: the computation and an empty HashMap.
KeyedCache_new(f) ==
    [self |-> [type |-> "KeyedCache", calculation_fn |-> f, values |-> <<>>],
     invoked |-> 0]

\* Mutant: the computation is handed another key than the entry's.
EntryKey_other(key) == (key % MaxKey) + 1

\* The argument the computation receives for a vacant entry: e.key().
EntryKey(key) == key

\* Mutant: every entry is treated as vacant and overwritten.
KeyedCache_value_mut_recompute(self, key, completes) ==
    IF ~completes
    THEN [self |-> self, out |-> Panicked, invoked |-> 1, arg |-> key]
    ELSE [self |-> [self EXCEPT !.values = Put(self.values, key, self.calculation_fn[key])],
          out |-> Ok(self.calculation_fn[key]), invoked |-> 1, arg |-> key]

\* Mutant: the computed value is handed back without being inserted.
KeyedCache_value_mut_no_insert(self, key, completes) ==
    IF key \in DOMAIN self.values
    THEN [self |-> self, out |-> Ok(self.values[key]), invoked |-> 0, arg |-> NoKey]
    ELSE IF ~completes
    THEN [self |-> self, out |-> Panicked, invoked |-> 1, arg |-> key]
    ELSE [self |-> self, out |-> Ok(self.calculation_fn[key]), invoked |-> 1, arg |-> key]

\* Mutant: the entry is filled with a placeholder before the computation runs,
\* so a panic leaves the key inserted.
KeyedCache_value_mut_insert_first(self, key, completes) ==
    IF key \in DOMAIN self.values
    THEN [self |-> self, out |-> Ok(self.values[key]), invoked |-> 0, arg |-> NoKey]
    ELSE IF ~completes
    THEN [self |-> [self EXCEPT !.values = Put(self.values, key, 1)],
          out |-> Panicked, invoked |-> 1, arg |-> key]
    ELSE [self |-> [self EXCEPT !.values = Put(self.values, key, self.calculation_fn[key])],
          out |-> Ok(self.calculation_fn[key]), invoked |-> 1, arg |-> key]

\* Mutant: a new entry replaces the map instead of being added to it.
KeyedCache_value_mut_single_slot(self, key, completes) ==
    IF key \in DOMAIN self.values
    THEN [self |-> self, out |-> Ok(self.values[key]), invoked |-> 0, arg |-> NoKey]
    ELSE IF ~completes
    THEN [self |-> self, out |-> Panicked, invoked |-> 1, arg |-> key]
    ELSE [self |-> [self EXCEPT !.values = Put(<<>>, key, self.calculation_fn[key])],
          out |-> Ok(self.calculation_fn[key]), invoked |-> 1, arg |-> key]

\* KeyedCache::value_mut: values.entry(key); a vacant entry runs the
\* computation on the entry's key and inserts what it returns, an occupied one
\* is handed back.  completes = FALSE: this invocation of the computation panics.
KeyedCache_value_mut(self, key, completes) ==
    IF key \in DOMAIN self.values
    THEN [self |-> self, out |-> Ok(self.values[key]), invoked |-> 0, arg |-> NoKey]
    ELSE LET arg == EntryKey(key)
         IN  IF ~completes
             THEN [self |-> self, out |-> Panicked, invoked |-> 1, arg |-> arg]
             ELSE LET calculation == self.calculation_fn[arg]
                  IN  [self |-> [self EXCEPT !.values = Put(self.values, key, calculation)],
                       out |-> Ok(calculation), invoked |-> 1, arg |-> arg]

\* Mutant: the lookup never finds the key.
KeyedCache_value_miss(self, key) ==
    [self |-> self, out |-> None, invoked |-> 0]

\* Mutant: value(key) computes and inserts on a miss, the way value_mut does.
KeyedCache_value_forcing(self, key) ==
    IF key \in DOMAIN self.values
    THEN [self |-> self, out |-> Some(self.values[key]), invoked |-> 0]
    ELSE [self |-> [self EXCEPT !.values = Put(self.values, key, self.calculation_fn[key])],
          out |-> Some(self.calculation_fn[key]), invoked |-> 1]

\* KeyedCache::value: values.get(key).
KeyedCache_value(self, key) ==
    [self |-> self,
     out |-> IF key \in DOMAIN self.values THEN Some(self.values[key]) ELSE None,
     invoked |-> 0]

\* `*val = v` through the reference value_mut(key) returned.
KeyedCache_write(self, key, v) ==
    [self EXCEPT !.values[key] = v]

\* ------------------------------------------------------------------ state
NoCalls == [k \in Keys |-> 0]

InitCommon ==
    /\ key_calls = NoCalls
    /\ key_done = NoCalls
    /\ failures = 0
    /\ mut_calls = 0
    /\ returned = {}
    /\ written = <<>>
    /\ requested = {}
    /\ ret = [op |-> "new", key |-> NoKey, out |-> None]

InitCache ==
    /\ computation \in Computations
    /\ sut = Cache_new(computation).self
    /\ counter = Cache_new(computation).invoked
    /\ InitCommon

InitKeyed ==
    /\ computation \in KeyedComputations
    /\ sut = KeyedCache_new(computation).self
    /\ counter = KeyedCache_new(computation).invoked
    /\ InitCommon

\* The components this specification does not exercise.
OthersUnused == perm = Unused /\ grid = Unused /\ env = Unused /\ own = Unused

Init == (InitCache \/ InitKeyed) /\ OthersUnused

\* sut.value_mut() on a Cache.
CacheValueMut ==
    /\ IsCache
    /\ mut_calls < MaxCalls
    /\ LET r == Cache_value_mut(sut)
       IN  /\ sut' = r.self
           /\ counter' = counter + r.invoked
           /\ failures' = failures + (IF r.invoked = 1 /\ r.out = Panicked THEN 1 ELSE 0)
           /\ returned' = IF r.out = Panicked THEN returned ELSE returned \cup {r.out[2]}
           /\ ret' = [op |-> "value_mut", key |-> NoKey, out |-> r.out]
    /\ mut_calls' = mut_calls + 1
    /\ UNCHANGED <<computation, key_calls, key_done, written, requested>>
    /\ UNCHANGED otherVars

\* sut.value() on a Cache.
CacheValue ==
    /\ IsCache
    /\ LET r == Cache_value(sut)
       IN  /\ sut' = r.self
           /\ counter' = counter + r.invoked
           /\ ret' = [op |-> "value", key |-> NoKey, out |-> r.out]
    /\ UNCHANGED <<computation, key_calls, key_done, failures, mut_calls, returned, written,
                   requested>>
    /\ UNCHANGED otherVars

\* The reference of the last value_mut call is still held: only then can the
\* caller write through it.
HoldsReference ==
    /\ ret.op \in {"value_mut", "write"}
    /\ ret.out # Panicked

\* *val = v on a Cache.
CacheWrite(v) ==
    /\ IsCache
    /\ HoldsReference
    /\ sut' = Cache_write(sut, v)
    /\ written' = Put(written, NoKey, v)
    /\ ret' = [op |-> "write", key |-> NoKey, out |-> Ok(v)]
    /\ UNCHANGED <<computation, counter, key_calls, key_done, failures, mut_calls, returned,
                   requested>>
    /\ UNCHANGED otherVars

\* sut.value_mut(key) on a KeyedCache; the computation may panic.
KeyedValueMut(key, completes) ==
    /\ IsKeyed
    /\ mut_calls < MaxCalls
    /\ completes \/ failures < MaxFail
    /\ LET r == KeyedCache_value_mut(sut, key, completes)
       IN  /\ sut' = r.self
           /\ counter' = counter + r.invoked
           /\ key_calls' = IF r.invoked = 1
                           THEN [key_calls EXCEPT ![r.arg] = @ + 1]
                           ELSE key_calls
           /\ key_done' = IF r.invoked = 1 /\ r.out # Panicked
                          THEN [key_done EXCEPT ![r.arg] = @ + 1]
                          ELSE key_done
           /\ failures' = failures + (IF r.invoked = 1 /\ r.out = Panicked THEN 1 ELSE 0)
           /\ ret' = [op |-> "value_mut", key |-> key, out |-> r.out]
    /\ requested' = requested \cup {key}
    /\ mut_calls' = mut_calls + 1
    /\ UNCHANGED <<computation, returned, written>>
    /\ UNCHANGED otherVars

\* sut.value(&key) on a KeyedCache.
KeyedValue(key) ==
    /\ IsKeyed
    /\ LET r == KeyedCache_value(sut, key)
       IN  /\ sut' = r.self
           /\ counter' = counter + r.invoked
           /\ ret' = [op |-> "value", key |-> key, out |-> r.out]
    /\ UNCHANGED <<computation, key_calls, key_done, failures, mut_calls, returned, written,
                   requested>>
    /\ UNCHANGED otherVars

\* *val = v on a KeyedCache, val being the reference value_mut(ret.key) gave.
KeyedWrite(v) ==
    /\ IsKeyed
    /\ HoldsReference
    /\ sut' = KeyedCache_write(sut, ret.key, v)
    /\ written' = Put(written, ret.key, v)
    /\ ret' = [op |-> "write", key |-> ret.key, out |-> Ok(v)]
    /\ UNCHANGED <<computation, counter, key_calls, key_done, failures, mut_calls, returned,
                   requested>>
    /\ UNCHANGED otherVars

Next ==
    \/ CacheValueMut
    \/ CacheValue
    \/ \E v \in Values : CacheWrite(v)
    \/ \E key \in Keys, completes \in BOOLEAN : KeyedValueMut(key, completes)
    \/ \E key \in Keys : KeyedValue(key)
    \/ \E v \in Values : KeyedWrite(v)

Spec == Init /\ [][Next]_allVars

\* ------------------------------------------------------------------ claims
Pending == sut.calculation_fn # None     \* Cache: the computation is still held
Present == sut.value # None              \* Cache: a value is stored
\* What a Cache holds once forced: the computed value, or the value last
\* written through the reference value_mut returned.
CacheHeld == IF NoKey \in DOMAIN written THEN written[NoKey] ELSE computation[2]
\* The same for key k of a KeyedCache.
KeyedHeld(k) == IF k \in DOMAIN written THEN written[k] ELSE computation[k]

\* C1: after n >= 1 value_mut calls on a fresh Cache whose computation
\* completes normally, with no write through the returned references, the
\* computation has been invoked exactly once and every call returned its result.
C1_ComputedOnce ==
    (IsCache /\ mut_calls >= 1 /\ computation # Panicked /\ NoKey \notin DOMAIN written)
        => (counter = 1 /\ returned = {computation[2]})

C1_Witness ==
    /\ IsCache /\ mut_calls >= 3 /\ NoKey \notin DOMAIN written
    /\ computation # Panicked
    /\ counter = 1 /\ returned = {computation[2]}
    /\ ret.op = "value_mut"

\* C2: for a KeyedCache whose computation never fails, the number of
\* invocations of the computation equals the number of distinct keys passed to
\* value_mut.
C2_OneInvocationPerDistinctKey ==
    (IsKeyed /\ failures = 0) => counter = Cardinality(requested)

C2_Witness ==
    /\ IsKeyed /\ failures = 0
    /\ mut_calls = 4 /\ requested = Keys /\ counter = Cardinality(Keys)

\* C3 as stated: the keyed computation runs at most once for any given key.
C3_RunsAtMostOncePerKey ==
    IsKeyed => \A k \in Keys : key_calls[k] <= 1

\* C3, amended: for any key the computation completes at most once and is not
\* invoked again once it has completed for that key (an invocation that
\* panicked is followed by another one); an access with a stored key returns
\* the stored value.
C3_CompletesAtMostOncePerKey ==
    [][IsKeyed =>
        /\ \A k \in Keys :
              /\ key_done'[k] <= 1
              /\ key_done[k] = 1 => key_calls'[k] = key_calls[k]
        /\ (ret'.op = "value_mut" /\ ret'.key \in DOMAIN sut.values)
              => ret'.out = Ok(sut.values[ret'.key])]_vars

C3_Witness ==
    /\ IsKeyed /\ ret.op = "value_mut" /\ mut_calls >= 3
    /\ key_calls[ret.key] = 2 /\ key_done[ret.key] = 1
    /\ ret.out = Ok(sut.values[ret.key])

\* C4 as stated: in every state of a Cache exactly one of "computation
\* pending" and "value present" holds.
C4_ExactlyOnePendingOrPresent ==
    IsCache => (Pending # Present)

\* C4, amended: a Cache never holds both the computation and a value; it holds
\* neither exactly when the computation was run and panicked, and exactly one
\* of them otherwise; before the first value_mut call it holds the computation
\* and no value.
C4_PendingOrPresentUnlessFailed ==
    IsCache =>
        /\ ~(Pending /\ Present)
        /\ (~Pending /\ ~Present) <=> (failures > 0)
        /\ mut_calls = 0 => (Pending /\ ~Present)

C4_Witness ==
    /\ IsCache /\ mut_calls >= 2 /\ ~Pending /\ Present
    /\ NoKey \in DOMAIN written

\* C5 as stated: value() is absent before the first value_mut call and is
\* present and equal to the computed value after a value_mut call completed.
C5_ValueIsTheComputedValue ==
    IsCache =>
        /\ mut_calls = 0 => Cache_value(sut).out = None
        /\ returned # {} => Cache_value(sut).out = Some(computation[2])

\* C5, amended: value() is absent before the first value_mut call; after a
\* value_mut call completed it is present and equal to the computed value, or
\* to the value last written through the reference value_mut returned.
C5_ValueIsTheHeldValue ==
    IsCache =>
        /\ mut_calls = 0 => Cache_value(sut).out = None
        /\ returned # {} => Cache_value(sut).out = Some(CacheHeld)

C5_Witness ==
    /\ IsCache /\ returned # {} /\ ret.op = "value"
    /\ ret.out = Some(computation[2])

\* C6: KeyedCache::value(k) is absent for every key never passed to value_mut,
\* and present with the memoized value (the computed one, or the one last
\* written through value_mut's reference) once value_mut(k) has completed.
C6_KeyedValue ==
    IsKeyed => \A k \in Keys :
        /\ k \notin requested => KeyedCache_value(sut, k).out = None
        /\ key_done[k] >= 1 => KeyedCache_value(sut, k).out = Some(KeyedHeld(k))

C6_Witness ==
    /\ IsKeyed /\ ret.op = "value" /\ requested # Keys
    /\ key_done[ret.key] = 1 /\ ret.out = Some(computation[ret.key])

\* C7: once the caller has written through the reference Cache::value_mut
\* returned, every later value_mut and value call gives the written value and
\* the computation is not invoked again.
C7_WritePersists ==
    [][(IsCache /\ NoKey \in DOMAIN written /\ ret'.op \in {"value_mut", "value"})
         => /\ ret'.out = IF ret'.op = "value_mut"
                          THEN Ok(written[NoKey]) ELSE Some(written[NoKey])
            /\ counter' = counter]_vars

C7_Witness ==
    /\ IsCache /\ NoKey \in DOMAIN written /\ ret.op = "value_mut"
    /\ ret.out = Ok(written[NoKey]) /\ written[NoKey] # computation[2]
    /\ counter = 1

\* C8: Cache::value() and KeyedCache::value(k) never invoke the computation
\* and leave the cache (pending computation, stored value, mapping) unchanged.
C8_ValueIsPureObserver ==
    [][ret'.op = "value" =>
          /\ sut' = sut
          /\ counter' = counter
          /\ key_calls' = key_calls
          /\ key_done' = key_done]_vars

C8_Witness ==
    /\ ret.op = "value" /\ ret.out = None
    /\ IsKeyed /\ requested # {} /\ DOMAIN sut.values # {}

\* C9: construction does not run the computation: until the first value_mut
\* call a Cache holds the computation and no value, a KeyedCache holds an
\* empty mapping, and the computation has been invoked 0 times.
C9_NewDoesNotCompute ==
    mut_calls = 0 =>
        /\ counter = 0
        /\ IsCache => (sut.calculation_fn = Some(computation) /\ sut.value = None)
        /\ IsKeyed => (sut.calculation_fn = computation /\ DOMAIN sut.values = {})

C9_Witness ==
    /\ IsCache /\ mut_calls = 0 /\ ret.op = "value" /\ ret.out = None
    /\ counter = 0 /\ Pending

\* C10: KeyedCache::value_mut(k) for a key not yet present invokes the
\* computation exactly once, with k as its argument, and when that invocation
\* returns, stores its result under k and returns it.
C10_VacantKeyComputes ==
    [][(IsKeyed /\ ret'.op = "value_mut" /\ ret'.key \notin DOMAIN sut.values) =>
          LET k == ret'.key
          IN  /\ counter' = counter + 1
              /\ key_calls' = [key_calls EXCEPT ![k] = @ + 1]
              /\ ret'.out # Panicked =>
                    /\ ret'.out = Ok(computation[k])
                    /\ sut'.values = Put(sut.values, k, computation[k])
                    /\ sut'.calculation_fn = sut.calculation_fn]_vars

C10_Witness ==
    /\ IsKeyed /\ ret.op = "value_mut" /\ ret.out = Ok(computation[ret.key])
    /\ key_calls[ret.key] = 1 /\ key_done[ret.key] = 1
    /\ DOMAIN sut.values = Keys
    /\ \E k \in Keys : computation[k] # computation[ret.key]

\* C11: KeyedCache::value_mut(k) for a key already present returns the stored
\* value, does not invoke the computation and leaves the stored keys, every
\* stored value and the computation's own state (its call counts) unchanged.
C11_OccupiedKeyIsHandedBack ==
    [][(IsKeyed /\ ret'.op = "value_mut" /\ ret'.key \in DOMAIN sut.values) =>
          /\ ret'.out = Ok(sut.values[ret'.key])
          /\ sut' = sut
          /\ counter' = counter
          /\ key_calls' = key_calls
          /\ key_done' = key_done
          /\ failures' = failures]_vars

C11_Witness ==
    /\ IsKeyed /\ ret.op = "value_mut" /\ mut_calls = 2 /\ requested = {ret.key}
    /\ counter = 1 /\ failures = 0
    /\ ret.key \in DOMAIN written /\ ret.out = Ok(written[ret.key])

\* C12: the computation of a Cache is attempted at most once, whether or not
\* the attempt completes: after a panicking attempt no value_mut call invokes
\* it again.
C12_AttemptedAtMostOnce ==
    [][IsCache =>
          /\ counter' <= 1
          /\ failures > 0 => counter' = counter]_vars

C12_Witness ==
    /\ IsCache /\ failures = 1 /\ counter = 1 /\ mut_calls >= 3
    /\ ret.op = "value_mut" /\ ret.out = Panicked

\* C13: when the computation of a Cache has panicked, the value_mut call that
\* ran it panicked, the Cache holds neither the computation nor a value,
\* value() is absent, and every later value_mut call panics as well.
C13_FailedCacheStaysEmpty ==
    (IsCache /\ failures > 0) =>
        /\ ~Pending /\ ~Present
        /\ Cache_value(sut).out = None
        /\ Cache_value_mut(sut).out = Panicked
        /\ ret.op = "value_mut" => ret.out = Panicked
        /\ ret.op = "value" => ret.out = None
        /\ returned = {}

C13_Witness ==
    /\ IsCache /\ failures = 1 /\ mut_calls >= 2
    /\ ret.op = "value" /\ ret.out = None /\ ~Pending

\* C14: when the computation panics for key k in KeyedCache::value_mut(k), the
\* map is left as it was, so value(k) is still absent; the next value_mut(k)
\* invokes the computation again and, if it returns, stores its result.  (The
\* panicking computation of a Cache is consumed instead.)
C14_FailedKeyIsRetried ==
    [][/\ (IsKeyed /\ ret'.op = "value_mut" /\ ret'.out = Panicked) =>
             /\ sut' = sut
             /\ KeyedCache_value(sut', ret'.key).out = None
       /\ (IsKeyed /\ ret'.op = "value_mut" /\ ret'.key \notin DOMAIN sut.values
             /\ key_calls[ret'.key] > 0) =>
             /\ key_calls'[ret'.key] = key_calls[ret'.key] + 1
             /\ ret'.out # Panicked =>
                   KeyedCache_value(sut', ret'.key).out = Some(computation[ret'.key])
       /\ (IsCache /\ ret'.op = "value_mut" /\ ret'.out = Panicked) =>
             sut'.calculation_fn = None]_vars

C14_Witness ==
    /\ IsKeyed /\ failures = 1 /\ mut_calls = 3 /\ ret.op = "value_mut"
    /\ key_calls[ret.key] = 2 /\ key_done[ret.key] = 1
    /\ DOMAIN sut.values = Keys /\ ret.out = Ok(computation[ret.key])

\* C15: the stored keys of a KeyedCache only grow: no step removes an entry, a
\* key for which value(k) is present stays present, and a completed value_mut
\* with a new key adds exactly that one entry.
C15_StoredKeysOnlyGrow ==
    [][IsKeyed =>
          /\ DOMAIN sut.values \subseteq DOMAIN sut'.values
          /\ \A k \in Keys : KeyedCache_value(sut, k).out # None
                                => KeyedCache_value(sut', k).out # None
          /\ (ret'.op = "value_mut" /\ ret'.key \notin DOMAIN sut.values
                /\ ret'.out # Panicked)
                => /\ DOMAIN sut'.values = DOMAIN sut.values \cup {ret'.key}
                   /\ Cardinality(DOMAIN sut'.values) = Cardinality(DOMAIN sut.values) + 1
          /\ ret'.op # "value_mut" => DOMAIN sut'.values = DOMAIN sut.values]_vars

C15_Witness ==
    /\ IsKeyed /\ DOMAIN sut.values = Keys /\ ret.op = "value"
    /\ ret.out # None /\ mut_calls = MaxCalls

\* =========================================================== permutation.rs
Ten == 10

\* The set of elements of a sequence.
Range(seq) == {seq[i] : i \in DOMAIN seq}

\* slice.swap(a, b), indices from 0.
Swap(digits, a, b) ==
    [digits EXCEPT ![a + 1] = digits[b + 1], ![b + 1] = digits[a + 1]]

\* digits.iter().fold(R::zero(), |sum, d| sum * 10 + d), over the first k digits.
RECURSIVE Fold(_, _)
Fold(digits, k) ==
    IF k = 0 THEN 0 ELSE Fold(digits, k - 1) * Ten + digits[k]

\* Mutant: the parity test of the swap is inverted.
SwapIndex_flipped(remaining_operations, i) ==
    IF remaining_operations % 2 = 1 THEN i ELSE 0

\* The index swapped with the last one: 0 when remaining_operations is odd,
\* the loop counter i when it is even.
SwapIndex(remaining_operations, i) ==
    IF remaining_operations % 2 = 1 THEN 0 ELSE i

\* The slices handed to heap_permutation.
Slices == UNION {[1..n -> 0..MaxDigit] : n \in 0..MaxLen}

CacheUnused ==
    /\ sut = Unused /\ computation = Unused /\ counter = Unused
    /\ key_calls = Unused /\ key_done = Unused /\ failures = Unused
    /\ mut_calls = Unused /\ returned = Unused /\ written = Unused
    /\ requested = Unused /\ ret = Unused

permRest == <<vars, grid, env, own>>

\* perm.stack holds the activations of _heap_permutation, the innermost last:
\* its remaining_operations, its loop counter i and where it stands ("entry":
\* at the top of the function, "loop": at the head of the for loop, "swap":
\* back from the recursive call).
Frame(remaining_operations) ==
    [remaining_operations |-> remaining_operations, i |-> 0, at |-> "entry"]

Top == perm.stack[Len(perm.stack)]
Pop == SubSeq(perm.stack, 1, Len(perm.stack) - 1)
SetTop(frame) == [perm.stack EXCEPT ![Len(perm.stack)] = frame]

PermInit ==
    /\ \E digits \in Slices :
          perm = [pc |-> "start", input |-> digits, digits |-> digits,
                  result |-> <<>>, stack |-> <<>>]
    /\ CacheUnused
    /\ grid = Unused /\ env = Unused /\ own = Unused

\* heap_permutation: result = vec![] and the call of _heap_permutation with
\* remaining_operations = digits.len().
HeapPermutationCall ==
    /\ perm.pc = "start"
    /\ perm' = [perm EXCEPT !.pc = "running", !.result = <<>>,
                            !.stack = <<Frame(Len(perm.digits))>>]
    /\ UNCHANGED permRest

\* _heap_permutation, remaining_operations == 1: push the base-10 reading of
\* the digits and return.
PermPush ==
    /\ perm.pc = "running" /\ perm.stack # <<>>
    /\ Top.at = "entry" /\ Top.remaining_operations = 1
    /\ perm' = [perm EXCEPT !.result = Append(@, Fold(perm.digits, Len(perm.digits))),
                            !.stack = Pop]
    /\ UNCHANGED permRest

\* _heap_permutation, remaining_operations # 1: enter the for loop.
PermEnterLoop ==
    /\ perm.pc = "running" /\ perm.stack # <<>>
    /\ Top.at = "entry" /\ Top.remaining_operations # 1
    /\ perm' = [perm EXCEPT !.stack = SetTop([Top EXCEPT !.at = "loop"])]
    /\ UNCHANGED permRest

\* for i in 0..remaining_operations: the recursive call of one iteration.
PermRecurse ==
    /\ perm.pc = "running" /\ perm.stack # <<>>
    /\ Top.at = "loop" /\ Top.i < Top.remaining_operations
    /\ perm' = [perm EXCEPT !.stack =
                   Append(SetTop([Top EXCEPT !.at = "swap"]),
                          Frame(Top.remaining_operations - 1))]
    /\ UNCHANGED permRest

\* The swap that ends an iteration.
PermSwap ==
    /\ perm.pc = "running" /\ perm.stack # <<>>
    /\ Top.at = "swap"
    /\ perm' = [perm EXCEPT
                   !.digits = Swap(@, SwapIndex(Top.remaining_operations, Top.i),
                                   Top.remaining_operations - 1),
                   !.stack = SetTop([Top EXCEPT !.i = @ + 1, !.at = "loop"])]
    /\ UNCHANGED permRest

\* The for loop is over: _heap_permutation returns.
PermReturn ==
    /\ perm.pc = "running" /\ perm.stack # <<>>
    /\ Top.at = "loop" /\ Top.i >= Top.remaining_operations
    /\ perm' = [perm EXCEPT !.stack = Pop]
    /\ UNCHANGED permRest

\* heap_permutation returns result.
HeapPermutationReturn ==
    /\ perm.pc = "running" /\ perm.stack = <<>>
    /\ perm' = [perm EXCEPT !.pc = "done"]
    /\ UNCHANGED permRest

PermNext ==
    \/ HeapPermutationCall
    \/ PermPush
    \/ PermEnterLoop
    \/ PermRecurse
    \/ PermSwap
    \/ PermReturn
    \/ HeapPermutationReturn

SpecPerm == PermInit /\ [][PermNext]_allVars

\* The call is a sequential computation: it keeps running until it returns.
SpecPermFair == SpecPerm /\ WF_allVars(PermNext)

\* ------------------------------------------------------------------ claims
RECURSIVE Factorial(_)
Factorial(n) == IF n = 0 THEN 1 ELSE n * Factorial(n - 1)

\* The arrangements of a sequence of pairwise distinct elements.
Arrangements(seq) ==
    {p \in [1..Len(seq) -> Range(seq)] : Range(p) = Range(seq)}

PairwiseDistinct(seq) == Cardinality(Range(seq)) = Len(seq)

\* What heap_permutation has returned for pairwise distinct digits.
C16_Result ==
    (perm.pc = "done" /\ Len(perm.input) >= 1 /\ PairwiseDistinct(perm.input)) =>
        /\ Len(perm.result) = Factorial(Len(perm.input))
        /\ PairwiseDistinct(perm.result)
        /\ Range(perm.result) = {Fold(p, Len(p)) : p \in Arrangements(perm.input)}
        /\ perm.input = <<1, 2>> => perm.result = <<12, 21>>
        /\ perm.input = <<1, 2, 3>> => perm.result = <<123, 213, 312, 132, 231, 321>>

\* C16: for n >= 1 pairwise distinct digits heap_permutation terminates and
\* returns n! numbers without duplicates, the base-10 readings of all the
\* arrangements of the digits; [1,2] gives 12, 21 and [1,2,3] gives 123, 213,
\* 312, 132, 231, 321.
C16_AllPermutationsOnce ==
    /\ []C16_Result
    /\ <>(perm.pc = "done")

C16_Witness ==
    /\ perm.pc = "done" /\ perm.input = <<1, 2, 3>>
    /\ perm.result = <<123, 213, 312, 132, 231, 321>>

\* ======================================================= multi_dimensional
Iota(n) == [i \in 1..n |-> i - 1]    \* the buffer [0, 1, 2, ..] of the tests
Buffers == {Iota(n) : n \in 0..MaxBuf}
Cells   == {9}                       \* what the writes store
Dims    == 0..MaxBuf
Indices == 0..MaxIdx

gridRest == <<vars, perm, env, own>>

\* slice[a..] and slice[..n], indices from 0; out of range panics.
SliceFrom(slice, a) ==
    IF a > Len(slice) THEN Panicked ELSE Ok(SubSeq(slice, a + 1, Len(slice)))
SliceTo(slice, n) ==
    IF n > Len(slice) THEN Panicked ELSE Ok(SubSeq(slice, 1, n))

\* The struct Window2D<T> / Vec2D<T>.
View(raw, rows, columns) == [raw |-> raw, rows |-> rows, columns |-> columns]

\* Mutant: the constructor does not check that the length divides evenly.
new_unguarded(raw, columns) ==
    IF columns = 0
    THEN Panicked
    ELSE Ok(View(raw, Len(raw) \div columns, columns))

\* Window2D::new_mut.  raw.len() / columns panics for columns = 0.
Window2D_new_mut(raw, columns) ==
    IF columns = 0
    THEN Panicked
    ELSE LET rows == Len(raw) \div columns
         IN  IF Len(raw) % columns # 0 THEN Panicked ELSE Ok(View(raw, rows, columns))

\* Window2D::new_ref.
Window2D_new_ref(raw, columns) ==
    IF columns = 0
    THEN Panicked
    ELSE LET rows == Len(raw) \div columns
         IN  IF Len(raw) % columns # 0 THEN Panicked ELSE Ok(View(raw, rows, columns))

\* Vec2D::from.
Vec2D_from(raw, columns) ==
    IF columns = 0
    THEN Panicked
    ELSE LET rows == Len(raw) \div columns
         IN  IF Len(raw) % columns # 0 THEN Panicked ELSE Ok(View(raw, rows, columns))

\* Window2D::new_mut_unchecked, Window2D::new_ref_unchecked, Vec2D::from_unchecked.
new_unchecked(raw, rows, columns) == Ok(View(raw, rows, columns))

\* The functions handed to Vec2D::new_with.
Funcs == {"100 * y + 10 * x", "y == x"}
Apply(func, y, x) ==
    IF func = "100 * y + 10 * x" THEN 100 * y + 10 * x
    ELSE IF y = x THEN 1 ELSE 0

\* Mutant: func is called with its arguments in the other order.
NewWithArgs_swapped(count, columns) == <<count % columns, count \div columns>>

\* The arguments of func for the element count of the range.
NewWithArgs(count, columns) == <<count \div columns, count % columns>>

\* Vec2D::new_with: (0..rows * columns).map(|count| func(..)).collect().
\* Gives the struct and the calls of func in the order they were made.
Vec2D_new_with(rows, columns, func) ==
    LET calls == [n \in 1..(rows * columns) |-> NewWithArgs(n - 1, columns)]
        raw == [n \in 1..(rows * columns) |-> Apply(func, calls[n][1], calls[n][2])]
    IN  [self |-> View(raw, rows, columns), calls |-> calls]

\* Mutant: the row offset is computed from rows instead of columns.
RowStart_rows(self, row) == row * self.rows

\* Where row starts in raw.
RowStart(self, row) == row * self.columns

\* Index<usize>::index / IndexMut<usize>::index_mut:
\* assert!(row < self.rows); &self.raw[row * self.columns..][..self.columns]
Index_row(self, row) ==
    IF ~(row < self.rows)
    THEN Panicked
    ELSE LET tail == SliceFrom(self.raw, RowStart(self, row))
         IN  IF tail = Panicked THEN Panicked ELSE SliceTo(tail[2], self.columns)

\* view[row][col]: the slice of the row, then the slice's own indexing.
Index_cell(self, row, col) ==
    LET slice == Index_row(self, row)
    IN  IF slice = Panicked THEN Panicked
        ELSE IF col >= Len(slice[2]) THEN Panicked
        ELSE Ok(slice[2][col + 1])

\* Index<(usize, usize)>::index: &self[index.0][index.1]
Index_pair(self, index) == Index_cell(self, index[1], index[2])

\* view[row][col] = v: the row's slice of raw is written at col.
IndexMut_cell(self, row, col, v) ==
    LET slice == Index_row(self, row)
    IN  IF slice = Panicked \/ (slice # Panicked /\ col >= Len(slice[2]))
        THEN [self |-> self, out |-> Panicked]
        ELSE LET start == RowStart(self, row)
                 stored == [slice[2] EXCEPT ![col + 1] = v]
             IN  [self |-> [self EXCEPT !.raw =
                              SubSeq(self.raw, 1, start) \o stored
                              \o SubSeq(self.raw, start + self.columns + 1, Len(self.raw))],
                  out |-> Ok(v)]

\* IndexMut<(usize, usize)>::index_mut: &mut self[index.0][index.1]
IndexMut_pair(self, index, v) == IndexMut_cell(self, index[1], index[2], v)

\* Vec2D::into_inner.
Vec2D_into_inner(self) == self.raw

NoView == View(<<>>, 0, 0)
Args(len, rows, columns) == [len |-> len, rows |-> rows, columns |-> columns]
NoRet  == [op |-> "none", row |-> 0, col |-> 0, out |-> <<>>]

GridInit ==
    /\ grid = [pc |-> "start", ctor |-> "none", args |-> Args(0, 0, 0),
               func |-> "none", view |-> NoView, calls |-> <<>>, ret |-> NoRet]
    /\ CacheUnused
    /\ perm = Unused /\ env = Unused /\ own = Unused

CheckedCtors   == {"Window2D::new_mut", "Window2D::new_ref", "Vec2D::from"}
UncheckedCtors == {"Window2D::new_mut_unchecked", "Window2D::new_ref_unchecked",
                   "Vec2D::from_unchecked"}
\* The views that can be written through, and the one that can be unwrapped.
Writable == {"Window2D::new_mut", "Window2D::new_mut_unchecked", "Vec2D::from",
             "Vec2D::from_unchecked", "Vec2D::new_with"}
Unwrappable == {"Vec2D::from", "Vec2D::from_unchecked", "Vec2D::new_with"}

Constructed(ctor, args, made) ==
    grid' = [grid EXCEPT !.pc = IF made = Panicked THEN "panicked" ELSE "view",
                         !.ctor = ctor, !.args = args,
                         !.view = IF made = Panicked THEN NoView ELSE made[2]]

\* Window2D::new_mut(&mut raw, columns)
NewMut(raw, columns) ==
    /\ grid.pc = "start"
    /\ Constructed("Window2D::new_mut", Args(Len(raw), 0, columns),
                   Window2D_new_mut(raw, columns))
    /\ UNCHANGED gridRest

\* Window2D::new_ref(&raw, columns)
NewRef(raw, columns) ==
    /\ grid.pc = "start"
    /\ Constructed("Window2D::new_ref", Args(Len(raw), 0, columns),
                   Window2D_new_ref(raw, columns))
    /\ UNCHANGED gridRest

\* Vec2D::from(raw, columns)
From(raw, columns) ==
    /\ grid.pc = "start"
    /\ Constructed("Vec2D::from", Args(Len(raw), 0, columns),
                   Vec2D_from(raw, columns))
    /\ UNCHANGED gridRest

\* One of the unchecked constructors.
NewUnchecked(ctor, raw, rows, columns) ==
    /\ grid.pc = "start"
    /\ rows * columns <= MaxBuf
    /\ Constructed(ctor, Args(Len(raw), rows, columns),
                   new_unchecked(raw, rows, columns))
    /\ UNCHANGED gridRest

\* Vec2D::new_with(rows, columns, func)
NewWith(rows, columns, func) ==
    /\ grid.pc = "start"
    /\ rows * columns <= MaxBuf
    /\ LET made == Vec2D_new_with(rows, columns, func)
       IN  grid' = [grid EXCEPT !.pc = "view", !.ctor = "Vec2D::new_with",
                                !.args = Args(0, rows, columns), !.func = func,
                                !.view = made.self, !.calls = made.calls]
    /\ UNCHANGED gridRest

\* view[row]
ReadRow(row) ==
    /\ grid.pc = "view"
    /\ grid' = [grid EXCEPT !.ret = [op |-> "row", row |-> row, col |-> 0,
                                     out |-> Index_row(grid.view, row)]]
    /\ UNCHANGED gridRest

\* view[row][col]
ReadCell(row, col) ==
    /\ grid.pc = "view"
    /\ grid' = [grid EXCEPT !.ret = [op |-> "cell", row |-> row, col |-> col,
                                     out |-> Index_cell(grid.view, row, col)]]
    /\ UNCHANGED gridRest

\* view[(row, col)]
ReadPair(row, col) ==
    /\ grid.pc = "view"
    /\ grid' = [grid EXCEPT !.ret = [op |-> "pair", row |-> row, col |-> col,
                                     out |-> Index_pair(grid.view, <<row, col>>)]]
    /\ UNCHANGED gridRest

\* view[row][col] = v
WriteCell(row, col, v) ==
    /\ grid.pc = "view" /\ grid.ctor \in Writable
    /\ LET r == IndexMut_cell(grid.view, row, col, v)
       IN  grid' = [grid EXCEPT !.view = r.self,
                                !.ret = [op |-> "set_cell", row |-> row, col |-> col,
                                         out |-> r.out]]
    /\ UNCHANGED gridRest

\* view[(row, col)] = v
WritePair(row, col, v) ==
    /\ grid.pc = "view" /\ grid.ctor \in Writable
    /\ LET r == IndexMut_pair(grid.view, <<row, col>>, v)
       IN  grid' = [grid EXCEPT !.view = r.self,
                                !.ret = [op |-> "set_pair", row |-> row, col |-> col,
                                         out |-> r.out]]
    /\ UNCHANGED gridRest

\* let values = view.into_inner();
IntoInner ==
    /\ grid.pc = "view" /\ grid.ctor \in Unwrappable
    /\ grid' = [grid EXCEPT !.pc = "unwrapped",
                            !.ret = [op |-> "into_inner", row |-> 0, col |-> 0,
                                     out |-> Ok(Vec2D_into_inner(grid.view))]]
    /\ UNCHANGED gridRest

GridNext ==
    \/ \E raw \in Buffers, columns \in Dims : NewMut(raw, columns)
    \/ \E raw \in Buffers, columns \in Dims : NewRef(raw, columns)
    \/ \E raw \in Buffers, columns \in Dims : From(raw, columns)
    \/ \E ctor \in UncheckedCtors, raw \in Buffers, rows \in Dims, columns \in Dims :
          NewUnchecked(ctor, raw, rows, columns)
    \/ \E rows \in Dims, columns \in Dims, func \in Funcs : NewWith(rows, columns, func)
    \/ \E row \in Indices : ReadRow(row)
    \/ \E row \in Indices, col \in Indices : ReadCell(row, col)
    \/ \E row \in Indices, col \in Indices : ReadPair(row, col)
    \/ \E row \in Indices, col \in Indices, v \in Cells : WriteCell(row, col, v)
    \/ \E row \in Indices, col \in Indices, v \in Cells : WritePair(row, col, v)
    \/ IntoInner

SpecGrid == GridInit /\ [][GridNext]_allVars

\* ------------------------------------------------ claims: multi_dimensional
\* rows * columns = len(raw): what the checked constructors establish.
Consistent(view) == view.rows * view.columns = Len(view.raw)
ReadOps  == {"row", "cell", "pair"}
WriteOps == {"set_cell", "set_pair"}

\* An index operation was just applied to a consistent view, in range.
IndexedInRange ==
    /\ grid.pc = "view" /\ grid'.pc = "view"
    /\ Consistent(grid.view)
    /\ grid'.ret.row < grid.view.rows
    /\ grid'.ret.op # "row" => grid'.ret.col < grid.view.columns

\* C17: for a view with rows * columns = len(raw), indexing by row r < rows
\* gives the columns cells of raw from r * columns on; indexing by r and
\* c < columns, as [r][c] or as [(r, c)], reads the cell r * columns + c of
\* raw; writing through either form changes exactly that cell of the buffer
\* and leaves rows and columns as they were.
C17_RowMajorIndexing ==
    [][IndexedInRange =>
         LET view == grid.view
             r == grid'.ret.row
             c == grid'.ret.col
             op == grid'.ret.op
         IN  /\ op = "row" =>
                   /\ grid'.ret.out =
                        Ok([i \in 1..view.columns |-> view.raw[r * view.columns + i]])
                   /\ grid'.view = view
             /\ op \in {"cell", "pair"} =>
                   /\ grid'.ret.out = Ok(view.raw[r * view.columns + c + 1])
                   /\ grid'.view = view
             /\ op \in WriteOps =>
                   /\ grid'.ret.out # Panicked
                   /\ grid'.view.rows = view.rows
                   /\ grid'.view.columns = view.columns
                   /\ Len(grid'.view.raw) = Len(view.raw)
                   /\ \A i \in 1..Len(view.raw) :
                         grid'.view.raw[i] =
                            IF i = r * view.columns + c + 1
                            THEN grid'.ret.out[2] ELSE view.raw[i]
             /\ op \in ReadOps \cup WriteOps]_grid

\* Column 1 of a 2 x 2 view over [0, 1, 2, 3] has been written, the second
\* cell through the pair form.
C17_Witness ==
    /\ grid.pc = "view" /\ grid.ctor = "Window2D::new_mut"
    /\ grid.view = View(<<0, 9, 2, 9>>, 2, 2)
    /\ grid.ret = [op |-> "set_pair", row |-> 1, col |-> 1, out |-> Ok(9)]

\* C18: called with columns >= 1, Window2D::new_ref, Window2D::new_mut and
\* Vec2D::from panic exactly when the length of raw is not a multiple of
\* columns; otherwise the view they return has rows = len(raw) / columns, the
\* columns and the buffer it was given, and so rows * columns = len(raw).
C18_CheckedConstructors ==
    (grid.ctor \in CheckedCtors /\ grid.args.columns >= 1) =>
        /\ grid.pc = "panicked" <=> grid.args.len % grid.args.columns # 0
        /\ grid.pc # "panicked" =>
              /\ grid.view.rows = grid.args.len \div grid.args.columns
              /\ grid.view.columns = grid.args.columns
              /\ Len(grid.view.raw) = grid.args.len
              /\ Consistent(grid.view)

\* Window2D::new_ref over three cells with two columns has panicked.
C18_Witness ==
    /\ grid.pc = "panicked" /\ grid.ctor = "Window2D::new_ref"
    /\ grid.args = Args(3, 0, 2)

\* The cells of a rows x columns grid, row by row from row y on.
RECURSIVE RowMajor(_, _, _)
RowMajor(y, rows, columns) ==
    IF y >= rows
    THEN <<>>
    ELSE [x \in 1..columns |-> <<y, x - 1>>] \o RowMajor(y + 1, rows, columns)

\* C19: Vec2D::new_with(rows, columns, func) calls func once per cell, in
\* row-major order and with the arguments (y, x); the buffer it builds has
\* rows * columns elements, v[y][x] and v[(y, x)] are func(y, x), and
\* into_inner hands the buffer back as it is, in row-major order.
C19_NewWithRowMajor ==
    [][/\ (grid.pc = "start" /\ grid'.ctor = "Vec2D::new_with") =>
            LET rows == grid'.args.rows
                columns == grid'.args.columns
                v == grid'.view
            IN  /\ grid'.calls = RowMajor(0, rows, columns)
                /\ v.rows = rows /\ v.columns = columns
                /\ Len(v.raw) = rows * columns
                /\ \A y \in 0..(rows - 1), x \in 0..(columns - 1) :
                      /\ Index_cell(v, y, x) = Ok(Apply(grid'.func, y, x))
                      /\ Index_pair(v, <<y, x>>) = Ok(Apply(grid'.func, y, x))
                      /\ v.raw[y * columns + x + 1] = Apply(grid'.func, y, x)
       /\ (grid.pc = "view" /\ grid'.pc = "unwrapped") =>
            grid'.ret.out = Ok(grid.view.raw)]_grid

\* new_with(2, 2, |y, x| 100 * y + 10 * x) has been unwrapped to
\* [0, 10, 100, 110].
C19_Witness ==
    /\ grid.pc = "unwrapped" /\ grid.ctor = "Vec2D::new_with"
    /\ grid.args = Args(0, 2, 2) /\ grid.func = "100 * y + 10 * x"
    /\ grid.calls = <<<<0, 0>>, <<0, 1>>, <<1, 0>>, <<1, 1>>>>
    /\ grid.ret.op = "into_inner" /\ grid.ret.out = Ok(<<0, 10, 100, 110>>)

\* ============================================================= environment
envRest == <<vars, perm, grid, own>>

\* The names a variable is declared under, letter by letter.
Names == {<<"p", "a", "t", "h">>, <<"d", "e", "b", "u", "g">>}
\* What an environment variable holds.
Texts == {"/bin", "on", "true", "yes", "1", "off", "false", "no", "0", "", "True"}
\* What the .env file gives a variable.
DotTexts == {"/bin", "on"}
\* A declaration is name() or name(): bool.
Types == {"none", "bool"}
NoText == ""
\* Variable names are case-sensitive on unix and not on windows.
Platforms == {"unix", "windows"}

ToUpper(c) ==
    CASE c = "p" -> "P" [] c = "a" -> "A" [] c = "t" -> "T" [] c = "h" -> "H"
      [] c = "d" -> "D" [] c = "e" -> "E" [] c = "b" -> "B" [] c = "u" -> "U"
      [] c = "g" -> "G" [] OTHER -> c

\* stringify!($environment_variable): the identifier as it was written.
Stringify(name) == name
\* [<$environment_variable:upper>]: the identifier in upper case.
PasteUpper(name) == [i \in 1..Len(name) |-> ToUpper(name[i])]

\* The variables of the process environment that matter to a declaration.
EnvKeys(name) == {Stringify(name), PasteUpper(name)}
\* The variable of the environment block that key names on the platform.
Slot(platform, key) == IF platform = "windows" THEN PasteUpper(key) ELSE key

NotPresent == <<"err", "NotPresent">>
Uninit     == <<"uninit">>

\* std::env::var(key)
env_var(platform, environ, key) ==
    LET held == environ[Slot(platform, key)]
    IN  IF held = None THEN NotPresent ELSE Ok(held[2])

\* Lazy::new(|| std::env::var(stringify!($environment_variable))), forced on
\* the first dereference and kept from then on.
Lazy_force(lazy, platform, environ, name) ==
    IF lazy = Uninit THEN env_var(platform, environ, Stringify(name)) ELSE lazy

Out(kind, text, var) == [kind |-> kind, text |-> text, var |-> var]

\* fn $environment_variable() -> &'static str
\* The panic message names the variable in upper case.
Accessor(forced, name) ==
    IF forced[1] = "ok"
    THEN Out("ok", forced[2], <<>>)
    ELSE Out("panic", NoText, PasteUpper(name))

\* fn try_$environment_variable() -> Option<&'static str>
TryAccessor(forced) ==
    IF forced[1] = "ok" THEN Out("Some", forced[2], <<>>) ELSE Out("None", NoText, <<>>)

\* init_dotenv(): dotenvy::dotenv().ok() sets the variable of the .env file
\* unless the environment already has it.
init_dotenv(platform, environ, dotfile) ==
    IF dotfile = None \/ env_var(platform, environ, dotfile[2].key) # NotPresent
    THEN environ
    ELSE [environ EXCEPT ![Slot(platform, dotfile[2].key)] = Some(dotfile[2].text)]

\* Mutant: the spelling "True" is taken for true.
try_convert_any_case(name, value) ==
    IF value = "on" \/ value = "true" \/ value = "yes" \/ value = "1" \/ value = "True"
    THEN Ok(TRUE)
    ELSE IF value = "off" \/ value = "false" \/ value = "no" \/ value = "0"
    THEN Ok(FALSE)
    ELSE <<"err", [name |-> name, unexpected_value |-> value]>>

\* impl EnvironmentConverter for bool: try_convert(name, value)
try_convert(name, value) ==
    IF value = "on" \/ value = "true" \/ value = "yes" \/ value = "1"
    THEN Ok(TRUE)
    ELSE IF value = "off" \/ value = "false" \/ value = "no" \/ value = "0"
    THEN Ok(FALSE)
    ELSE <<"err", [name |-> name, unexpected_value |-> value]>>

NoConvertBoolError == [name |-> <<>>, unexpected_value |-> NoText]
\* What a typed accessor gives: Ok(value), Err(VarError(..)),
\* Err(ConversionError(..)) or a panic naming the variable in upper case.
Typed(kind, value, var_error, conversion_error, var) ==
    [kind |-> kind, value |-> value, var_error |-> var_error,
     conversion_error |-> conversion_error, var |-> var]

\* Mutant: the text is converted before the lookup's error is passed on.
TryTypedAccessor_convert_first(forced, name) ==
    LET converted == try_convert(Stringify(name), IF forced[1] = "ok" THEN forced[2] ELSE NoText)
    IN  IF forced[1] # "ok"
        THEN [out |-> Typed("VarError", FALSE, forced[2], NoConvertBoolError, <<>>),
              converted |-> TRUE]
        ELSE IF converted[1] = "ok"
        THEN [out |-> Typed("Ok", converted[2], NoText, NoConvertBoolError, <<>>),
              converted |-> TRUE]
        ELSE [out |-> Typed("ConversionError", FALSE, NoText, converted[2], <<>>),
              converted |-> TRUE]

\* fn try_$environment_variable_$ty(): the out it returns, and whether
\* try_convert was called.
TryTypedAccessor(forced, name) ==
    IF forced[1] # "ok"
    THEN [out |-> Typed("VarError", FALSE, forced[2], NoConvertBoolError, <<>>),
          converted |-> FALSE]
    ELSE LET converted == try_convert(Stringify(name), forced[2])
         IN  IF converted[1] = "ok"
             THEN [out |-> Typed("Ok", converted[2], NoText, NoConvertBoolError, <<>>),
                   converted |-> TRUE]
             ELSE [out |-> Typed("ConversionError", FALSE, NoText, converted[2], <<>>),
                   converted |-> TRUE]

\* fn $environment_variable_$ty(): try_..().expect(..)
TypedAccessor(forced, name) ==
    LET tried == TryTypedAccessor(forced, name)
    IN  IF tried.out.kind = "Ok"
        THEN tried
        ELSE [tried EXCEPT !.out =
                Typed("panic", FALSE, NoText, NoConvertBoolError, PasteUpper(name))]

\* The environment blocks of a platform: windows has one variable per
\* spelling in any case, kept here under the upper-case one.
Environs(platform, name) ==
    {e \in [EnvKeys(name) -> {None} \cup {Some(t) : t \in Texts}] :
        platform = "windows" => e[Stringify(name)] = None}
Dotfiles(name) ==
    {None} \cup {Some([key |-> k, text |-> t]) : k \in EnvKeys(name), t \in DotTexts}

EnvInit ==
    /\ \E platform \in Platforms, name \in Names, ty \in Types :
         \E environ \in Environs(platform, name), dotfile \in Dotfiles(name) :
            env = [platform |-> platform, name |-> name, ty |-> ty,
                   environ |-> environ, dotfile |-> dotfile, lazy |-> Uninit,
                   ret |-> [op |-> "none", out |-> Out("none", NoText, <<>>)]]
    /\ CacheUnused
    /\ perm = Unused /\ grid = Unused /\ own = Unused

\* environment::init_dotenv()
InitDotenv ==
    /\ env' = [env EXCEPT !.environ = init_dotenv(env.platform, @, env.dotfile),
                          !.ret = [op |-> "init_dotenv", out |-> Out("unit", NoText, <<>>)]]
    /\ UNCHANGED envRest

\* environment::path()
Get ==
    /\ LET forced == Lazy_force(env.lazy, env.platform, env.environ, env.name)
       IN  env' = [env EXCEPT !.lazy = forced,
                              !.ret = [op |-> "get", out |-> Accessor(forced, env.name)]]
    /\ UNCHANGED envRest

\* environment::try_path()
TryGet ==
    /\ LET forced == Lazy_force(env.lazy, env.platform, env.environ, env.name)
       IN  env' = [env EXCEPT !.lazy = forced,
                              !.ret = [op |-> "try_get", out |-> TryAccessor(forced)]]
    /\ UNCHANGED envRest

\* environment::try_debug_bool()
TryGetTyped ==
    /\ env.ty = "bool"
    /\ LET forced == Lazy_force(env.lazy, env.platform, env.environ, env.name)
           tried == TryTypedAccessor(forced, env.name)
       IN  env' = [env EXCEPT !.lazy = forced,
                              !.ret = [op |-> "try_get_typed", out |-> tried.out,
                                       converted |-> tried.converted]]
    /\ UNCHANGED envRest

\* environment::debug_bool()
GetTyped ==
    /\ env.ty = "bool"
    /\ LET forced == Lazy_force(env.lazy, env.platform, env.environ, env.name)
           got == TypedAccessor(forced, env.name)
       IN  env' = [env EXCEPT !.lazy = forced,
                              !.ret = [op |-> "get_typed", out |-> got.out,
                                       converted |-> got.converted]]
    /\ UNCHANGED envRest

\* <bool as EnvironmentConverter>::try_convert(name, value), called directly
TryConvert(name, value) ==
    /\ env' = [env EXCEPT !.ret = [op |-> "try_convert", name |-> name,
                                   value |-> value, out |-> try_convert(name, value)]]
    /\ UNCHANGED envRest

EnvNext ==
    \/ InitDotenv \/ Get \/ TryGet \/ TryGetTyped \/ GetTyped
    \/ \E value \in Texts : TryConvert(Stringify(env.name), value)

SpecEnv == EnvInit /\ [][EnvNext]_allVars

\* ------------------------------------------------------ claims: environment
\* C20: for a variable declared under the lower-case name `name`, the
\* accessors read the environment variable whose name is `name` in upper
\* case: what the first access finds is what the environment holds under
\* that upper-case name at that moment, and the accessor hands it out.
C20_ReadsUpperCaseName ==
    [][(env.lazy = Uninit /\ env'.lazy # Uninit) =>
          LET found == env_var(env.platform, env.environ, PasteUpper(env.name))
          IN  /\ env'.lazy = found
              /\ (found # NotPresent /\ env'.ret.op \in {"get", "try_get"}) =>
                    /\ env'.ret.out.kind \in {"ok", "Some"}
                    /\ env'.ret.out.text = found[2]]_env

TrueTexts  == {"on", "true", "yes", "1"}
FalseTexts == {"off", "false", "no", "0"}

\* C21: the bool converter gives true for "on", "true", "yes" and "1", false
\* for "off", "false", "no" and "0", and for every other text, the empty one
\* and "True" among them, a ConvertBoolError that carries the variable's name
\* and the text it was given.
C21_BoolConverter ==
    env.ret.op = "try_convert" =>
        LET value == env.ret.value
            out == env.ret.out
        IN  /\ value \in TrueTexts => (out[1] = "ok" /\ out[2] = TRUE)
            /\ value \in FalseTexts => (out[1] = "ok" /\ out[2] = FALSE)
            /\ value \notin TrueTexts \cup FalseTexts =>
                  /\ out[1] = "err"
                  /\ out[2].name = env.ret.name
                  /\ out[2].unexpected_value = value

\* "True" was refused for the variable debug.
C21_Witness ==
    /\ env.ret.op = "try_convert"
    /\ env.ret.name = <<"d", "e", "b", "u", "g">> /\ env.ret.value = "True"
    /\ env.ret.out[1] = "err"
    /\ env.ret.out[2] = [name |-> <<"d", "e", "b", "u", "g">>, unexpected_value |-> "True"]

\* What an accessor that has just returned must have given, if found is
\* what looking the variable up gave: NotPresent or Ok(text).
AccessorsAnswer(found) ==
    LET op == env'.ret.op
        out == env'.ret.out
        set == found # NotPresent
        valid == set /\ found[2] \in TrueTexts \cup FalseTexts
    IN  /\ op = "get" =>
              IF set THEN out.kind = "ok" /\ out.text = found[2]
              ELSE out.kind = "panic"
        /\ op = "try_get" =>
              IF set THEN out.kind = "Some" /\ out.text = found[2]
              ELSE out.kind = "None"
        /\ op = "try_get_typed" =>
              /\ ~set => /\ out.kind = "VarError" /\ out.var_error = "NotPresent"
                         /\ ~env'.ret.converted
              /\ (set /\ ~valid) =>
                    /\ out.kind = "ConversionError"
                    /\ out.conversion_error.unexpected_value = found[2]
              /\ valid => out.kind = "Ok" /\ out.value = (found[2] \in TrueTexts)
        /\ op = "get_typed" =>
              IF valid THEN out.kind = "Ok" /\ out.value = (found[2] \in TrueTexts)
              ELSE out.kind = "panic"

ownRest == <<vars, perm, grid, env>>

\* The four pointer types; two of them own through a Box.
Kinds == {"Borrowned", "BorrownedBox", "Ob", "OBox"}
Boxed(kind) == kind \in {"BorrownedBox", "OBox"}
\* What a T holds.
Payloads == {"hello", "world", "Hello World"}
\* &mut lender: the one variable a pointer can borrow.
Ref == "&mut lender"
Box(v) == <<"Box", v>>

\* Owned(T), Owned(Box<T>) and Borrowed(&'b mut T)
Owned(kind, v) == <<"Owned", IF Boxed(kind) THEN Box(v) ELSE v>>
Borrowed == <<"Borrowed", Ref>>
Moved == <<"moved">>

\* Mutant: the owned extractor also succeeds on a borrowed pointer.
try_into_owned_any(self) == Ok(self[2])

\* Borrowned::try_into_owned, BorrownedBox::try_into_box, Ob::into_owned,
\* OBox::into_box: match self { Owned(owned) => Ok(owned), _ => Err(self) }
try_into_owned(self) ==
    IF self[1] = "Owned" THEN Ok(self[2]) ELSE <<"err", self>>

\* Borrowned::try_into_borrowed, BorrownedBox::try_into_borrowed,
\* Ob::into_borrowed, OBox::into_borrowed
try_into_borrowed(self) ==
    IF self[1] = "Borrowed" THEN Ok(self[2]) ELSE <<"err", self>>

\* inner_ref: the T that is owned, in its Box or not, or the lender's.
inner_ref(kind, self, lender) ==
    IF self[1] = "Owned"
    THEN IF Boxed(kind) THEN self[2][2] ELSE self[2]
    ELSE lender

\* Mutant: a write to a borrowed pointer makes it own what was written, as
\* Cow does, and leaves the lender's variable alone.
Assign_clone_on_write(kind, self, lender, v) ==
    [self |-> Owned(kind, v), lender |-> lender]

\* *self.inner_mut() = v: the write lands in the owned T or in the
\* lender's variable.
Assign(kind, self, lender, v) ==
    IF self[1] = "Owned"
    THEN [self |-> Owned(kind, v), lender |-> lender]
    ELSE [self |-> self, lender |-> v]

NoOwnRet == [op |-> "none", out |-> <<"none">>]

OwnInit ==
    /\ \E kind \in Kinds, lender \in Payloads :
         \E self \in {Borrowed} \cup {Owned(kind, v) : v \in Payloads} :
            own = [pc |-> "live", kind |-> kind, self |-> self, lender |-> lender,
                   ret |-> NoOwnRet]
    /\ CacheUnused
    /\ perm = Unused /\ grid = Unused /\ env = Unused

\* A write through DerefMut, BorrowMut or AsMut, all of which are inner_mut.
Written(op, v) ==
    LET r == Assign(own.kind, own.self, own.lender, v)
    IN  own' = [own EXCEPT !.self = r.self, !.lender = r.lender,
                           !.ret = [op |-> op, out |-> Ok(v)]]

\* *pointer = v
DerefMutWrite(v) ==
    /\ own.pc = "live"
    /\ Written("deref_mut", v)
    /\ UNCHANGED ownRest

\* *pointer.borrow_mut() = v
BorrowMutWrite(v) ==
    /\ own.pc = "live"
    /\ Written("borrow_mut", v)
    /\ UNCHANGED ownRest

\* *pointer.as_mut() = v
AsMutWrite(v) ==
    /\ own.pc = "live"
    /\ Written("as_mut", v)
    /\ UNCHANGED ownRest

\* *pointer, pointer.borrow(), pointer.as_ref(): all of them inner_ref
DerefRead ==
    /\ own.pc = "live"
    /\ own' = [own EXCEPT !.ret = [op |-> "deref",
                                   out |-> Ok(inner_ref(own.kind, own.self, own.lender))]]
    /\ UNCHANGED ownRest

\* What is left of the pointer after an extractor: it is consumed, and the
\* caller has it back from Err.
Extracted(op, out) ==
    own' = [own EXCEPT !.pc = IF out[1] = "ok" THEN "extracted" ELSE "live",
                       !.self = IF out[1] = "ok" THEN Moved ELSE out[2],
                       !.ret = [op |-> op, out |-> out]]

\* pointer.try_into_owned() / try_into_box() / into_owned() / into_box()
TryIntoOwned ==
    /\ own.pc = "live"
    /\ Extracted("try_into_owned", try_into_owned(own.self))
    /\ UNCHANGED ownRest

\* pointer.try_into_borrowed() / into_borrowed()
TryIntoBorrowed ==
    /\ own.pc = "live"
    /\ Extracted("try_into_borrowed", try_into_borrowed(own.self))
    /\ UNCHANGED ownRest

OwnNext ==
    \/ \E v \in Payloads : DerefMutWrite(v)
    \/ \E v \in Payloads : BorrowMutWrite(v)
    \/ \E v \in Payloads : AsMutWrite(v)
    \/ DerefRead
    \/ TryIntoOwned
    \/ TryIntoBorrowed

SpecOwn == OwnInit /\ [][OwnNext]_allVars

\* --------------------------------------------------------- claims: ownership
ExtractorOps == {"try_into_owned", "try_into_borrowed"}
WriteThroughOps == {"deref_mut", "borrow_mut", "as_mut"}

\* C23: of the two extractors exactly one succeeds on any pointer: the owned
\* one gives Ok with what is owned exactly when the pointer is Owned, the
\* borrowed one gives Ok with the reference exactly when it is Borrowed, and
\* the one that fails gives the pointer back in Err, its variant and its
\* contents as they were; the lender's variable is not touched.
C23_ExactlyOneExtractor ==
    [][(own.pc = "live" /\ own'.ret.op \in ExtractorOps) =>
          LET self == own.self
              out == own'.ret.out
              wanted == IF own'.ret.op = "try_into_owned" THEN "Owned" ELSE "Borrowed"
          IN  /\ (try_into_owned(self)[1] = "ok") # (try_into_borrowed(self)[1] = "ok")
              /\ out[1] = "ok" <=> self[1] = wanted
              /\ out[1] = "ok" =>
                    /\ self[1] = "Owned" =>
                          out[2] = (IF Boxed(own.kind)
                                    THEN Box(inner_ref(own.kind, self, own.lender))
                                    ELSE inner_ref(own.kind, self, own.lender))
                    /\ self[1] = "Borrowed" => out[2] = Ref
              /\ out[1] # "ok" =>
                    /\ out[1] = "err" /\ out[2] = self
                    /\ own'.self = self /\ own'.pc = "live"
              /\ own'.lender = own.lender]_own

\* try_into_owned on a Borrowned that borrows gave the pointer back.
C23_Witness ==
    /\ own.kind = "Borrowned" /\ own.pc = "live" /\ own.self = Borrowed
    /\ own.ret.op = "try_into_owned"
    /\ own.ret.out[1] = "err" /\ own.ret.out[2] = Borrowed

\* C24: a write through DerefMut, BorrowMut or AsMut leaves the variant as
\* it was.  On a Borrowed pointer it changes the lender's variable, which
\* then holds what was written, and the pointer still borrows it; on an Owned
\* pointer it changes what is owned and leaves the lender's variable alone.
\* Reading through the pointer then gives what was written.
C24_WritesKeepVariant ==
    [][(own.pc = "live" /\ own'.ret.op \in WriteThroughOps) =>
          LET v == own'.ret.out[2]
          IN  /\ own'.self[1] = own.self[1]
              /\ own'.kind = own.kind /\ own'.pc = "live"
              /\ own.self[1] = "Borrowed" =>
                    own'.lender = v /\ own'.self = own.self
              /\ own.self[1] = "Owned" =>
                    /\ own'.lender = own.lender
                    /\ own'.self[2] = (IF Boxed(own.kind) THEN Box(v) ELSE v)
              /\ inner_ref(own'.kind, own'.self, own'.lender) = v]_own

\* A Borrowned that borrows has been written through: the lender's variable
\* holds what was written, and the pointer still borrows.
C24_Witness ==
    /\ own.kind = "Borrowned" /\ own.pc = "live" /\ own.self = Borrowed
    /\ own.ret.op = "deref_mut" /\ own.ret.out = Ok("world")
    /\ own.lender = "world"

=============================================================================
